---- MODULE Spec2Model ----
(***************************************************************************)
(* Curvy-route finder of B-Road: CurvyRouteService.find_curvy_route and    *)
(* its helpers (api/services/curvy_route_service.py), the OSRM client it   *)
(* awaits (api/services/osrm_service.py) and the router that turns an      *)
(* OSRMError into an HTTP error (api/routers/routing.py).                   *)
(*                                                                         *)
(* A request is a coroutine: each action below is the code that runs       *)
(* between two awaits on the routing engine, taking the engine's answer    *)
(* to the pending call as its input.                                       *)
(*                                                                         *)
(* Numbers.  Python floats are modelled as exact rationals <<n, d>> in     *)
(* lowest terms (d > 0); <<0, 0>> stands for a raised ZeroDivisionError.   *)
(* route_position is kept in thousandths of the route length, the          *)
(* rounded detour_ratio in hundredths and the rounded score in             *)
(* thousandths.                                                            *)
(***************************************************************************)
EXTENDS Integers, Sequences, FiniteSets, TLC

VARIABLES
    request,          \* CurvyRouteRequest: start, end, options
    pc,               \* position of the request coroutine
    calls,            \* waypoint lists passed to osrm.calculate_route, in order
    call_kinds,       \* which await issued each engine call
    answers,          \* outcome of each answered engine call: "route" or the
                      \* cause of the OSRMError
    corridor_calls,   \* arguments of each repo.get_segments_in_corridor call
    baseline,         \* baseline route, NoRoute before it is known
    corridor_width,   \* effective corridor width (local of find_curvy_route)
    max_waypoints,    \* effective selection cap (local of find_curvy_route)
    segments,         \* corridor query result
    scored,           \* _score_segments result
    selected,         \* find_curvy_route's selection (sorted by route_position)
    remaining,        \* _trim_for_detour's working copy
    attempt,          \* iterations of the trim loop started so far
    waypoint_list,    \* waypoint list of the pending / last engine call
    final_route,      \* find_curvy_route's final_route
    response          \* what the router returns: result, error, or NoResponse

vars == <<request, pc, calls, call_kinds, answers, corridor_calls, baseline,
          corridor_width, max_waypoints, segments, scored, selected,
          remaining, attempt, waypoint_list, final_route, response>>

-----------------------------------------------------------------------------
(* Bounds of the model *)

\* longest corridor query result considered
MaxSegs == 5

-----------------------------------------------------------------------------
(* Exact rational arithmetic standing for Python float arithmetic *)

RECURSIVE GCD(_, _)
GCD(a, b) == IF b = 0 THEN a ELSE GCD(b, a % b)

ZeroDivisionError == <<0, 0>>

Raised(r) == r[2] = 0

Rat(n, d) ==
    LET g == GCD(n, d) IN <<n \div g, d \div g>>

\* Python's a / b
Div(a, b) == IF b = 0 THEN ZeroDivisionError ELSE Rat(a, b)

RatAdd(a, b) ==
    IF Raised(a) \/ Raised(b) THEN ZeroDivisionError
    ELSE Rat(a[1] * b[2] + b[1] * a[2], a[2] * b[2])

RatMul(a, b) ==
    IF Raised(a) \/ Raised(b) THEN ZeroDivisionError
    ELSE Rat(a[1] * b[1], a[2] * b[2])

RatLT(a, b) == a[1] * b[2] < b[1] * a[2]

RatLE(a, b) == a[1] * b[2] <= b[1] * a[2]

\* Python's round(x, k) for x >= 0, result in units of 1/scale (scale = 10^k);
\* an exact tie goes to the even neighbour
Round(x, scale) ==
    LET n == x[1] * scale
        q == n \div x[2]
        r == n % x[2]
    IN  IF 2 * r < x[2] THEN q
        ELSE IF 2 * r > x[2] THEN q + 1
        ELSE IF q % 2 = 0 THEN q ELSE q + 1

Min(a, b) == IF a <= b THEN a ELSE b

Abs(a) == IF a < 0 THEN -a ELSE a

-----------------------------------------------------------------------------
(* Values *)

NoRoute == [geometry |-> 0, distance |-> 0, duration |-> 0]

NoResponse == [kind |-> "none"]

\* the request's endpoints (WaypointRequest)
Start == [lng |-> -725, lat |-> 442]

End == [lng |-> -728, lat |-> 439]

\* CurvyRouteOptions values tried, as <<corridor_width, max_waypoints>>; all
\* inside the Field(ge=, le=) ranges
WidthsAndCaps == {<<1000, 5>>, <<15000, 20>>}

MaxDetourRatios == {<<11, 10>>, <<5, 2>>}

DefaultMinCurvature == 500

DefaultMinSegmentLength == 500

\* distances (metres) the routing engine may report for the baseline
BaselineDistances == {0, 3000, 5000, 50000}

\* distances (metres) the routing engine may report for a curvy route
RouteDistances == {55000, 125000, 150000}

\* durations (seconds) the routing engine may report
Durations == {3600}

\* rows the corridor query may return (dicts of get_segments_in_corridor)
SegmentRows == {
    [id |-> 1, name |-> "r1", curvature |-> 2500, length |-> 15000,
     distance_from_route |-> 2000, route_position |-> 200,
     centroid_lng |-> -7259, centroid_lat |-> 4426],
    [id |-> 2, name |-> "r2", curvature |-> 2500, length |-> 15000,
     distance_from_route |-> 2000, route_position |-> 210,
     centroid_lng |-> -7260, centroid_lat |-> 4427],
    [id |-> 3, name |-> "r3", curvature |-> 2500, length |-> 15000,
     distance_from_route |-> 2000, route_position |-> 870,
     centroid_lng |-> -7291, centroid_lat |-> 4406],
    [id |-> 4, name |-> "r4", curvature |-> 4500, length |-> 20000,
     distance_from_route |-> 12000, route_position |-> 100,
     centroid_lng |-> -7278, centroid_lat |-> 4454],
    [id |-> 5, name |-> "r5", curvature |-> 0, length |-> 0,
     distance_from_route |-> 20000, route_position |-> 900,
     centroid_lng |-> -7270, centroid_lat |-> 4400],
    [id |-> 6, name |-> "r6", curvature |-> 3200, length |-> 18000,
     distance_from_route |-> 5000, route_position |-> 500,
     centroid_lng |-> -7265, centroid_lat |-> 4410] }

\* corridor query results: lists of distinct rows, at most n long
RECURSIVE SegmentLists(_)
SegmentLists(n) ==
    IF n = 0 THEN {<< >>}
    ELSE LET shorter == SegmentLists(n - 1)
         IN  shorter \cup
             UNION { { Append(l, r) :
                         r \in { x \in SegmentRows :
                                   \A i \in 1..Len(l) : l[i] # x } } :
                     l \in { s \in shorter : Len(s) = n - 1 } }

CorridorResults == SegmentLists(MaxSegs)

\* OSRMError(message, status_code) as raised by calculate_route
OSRMErrors == {
    [cause |-> "unavailable", status_code |-> 503],
    [cause |-> "timeout", status_code |-> 503],
    [cause |-> "upstream-error", status_code |-> 502],
    [cause |-> "no-route", status_code |-> 422] }

\* successful answers of the engine to its n-th call; the geometry is an
\* opaque token naming the answer
EngineRoutes(n, dists) ==
    { [geometry |-> n, distance |-> d, duration |-> t] :
        d \in dists, t \in Durations }

-----------------------------------------------------------------------------
(* Pure helpers of CurvyRouteService *)

\* list.sort(key=...) is stable: position of element i in the sorted list
StableRank(keys, i, Less(_, _)) ==
    1 + Cardinality({ j \in DOMAIN keys :
                        \/ Less(keys[j], keys[i])
                        \/ (~Less(keys[i], keys[j]) /\ ~Less(keys[j], keys[i])
                              /\ j < i) })

StableSort(seq, keys, Less(_, _)) ==
    [ k \in DOMAIN seq |->
        seq[CHOOSE i \in DOMAIN seq : StableRank(keys, i, Less) = k] ]

IntLess(a, b) == a < b

RatGreater(a, b) == RatLT(b, a)

\* a descending sort that reverses the order of equal scores
SortByScoreDescending_ReversedTies(seq) ==
    LET asc == StableSort(seq, [i \in DOMAIN seq |-> seq[i].score], RatLT)
    IN  [ k \in DOMAIN seq |-> asc[Len(seq) + 1 - k] ]

\* scored.sort(key=lambda s: s["score"], reverse=True)
SortByScoreDescending(seq) ==
    StableSort(seq, [i \in DOMAIN seq |-> seq[i].score], RatGreater)

\* a sort by score that puts the highest score first
SortByScore_HighestFirst(seq) ==
    StableSort(seq, [i \in DOMAIN seq |-> seq[i].score], RatGreater)

\* remaining.sort(key=lambda s: s["score"])
SortByScore(seq) ==
    StableSort(seq, [i \in DOMAIN seq |-> seq[i].score], RatLT)

\* the list left in the order it already has
SortByRoutePosition_Unsorted(seq) == seq

\* selected.sort(key=lambda s: s["route_position"])
SortByRoutePosition(seq) ==
    StableSort(seq, [i \in DOMAIN seq |-> seq[i].route_position], IntLess)

SeqMax(seq, f(_)) ==
    CHOOSE m \in { f(seq[i]) : i \in DOMAIN seq } :
        \A i \in DOMAIN seq : f(seq[i]) <= m

Curvature(s) == s.curvature

Length(s) == s.length

\* the proximity term without its clamp at zero
RatMax0_Unclamped(x) == x

\* max(0, x) for a rational x = 1 - a/b written as (b - a)/b
RatMax0(x) == IF x[1] < 0 THEN <<0, 1>> ELSE x

\* the distance ratio itself taken as the proximity term
SegmentScore_DistanceAsProximity(seg, max_curvature, max_length, width) ==
    LET curv_norm == IF max_curvature > 0
                     THEN Div(seg.curvature, max_curvature) ELSE <<0, 1>>
        len_norm  == IF max_length > 0
                     THEN Div(seg.length, max_length) ELSE <<0, 1>>
        prox_norm == Div(seg.distance_from_route, width)
    IN  RatAdd(RatAdd(RatMul(curv_norm, <<1, 2>>),
                      RatMul(len_norm, <<3, 10>>)),
               RatMul(prox_norm, <<1, 5>>))

\* the normalisations without their guards on a zero maximum
SegmentScore_Unguarded(seg, max_curvature, max_length, width) ==
    LET curv_norm == Div(seg.curvature, max_curvature)
        len_norm  == Div(seg.length, max_length)
        ratio     == Div(seg.distance_from_route, width)
        prox_norm == IF Raised(ratio) THEN ZeroDivisionError
                     ELSE RatMax0(Rat(ratio[2] - ratio[1], ratio[2]))
    IN  RatAdd(RatAdd(RatMul(curv_norm, <<1, 2>>),
                      RatMul(len_norm, <<3, 10>>)),
               RatMul(prox_norm, <<1, 5>>))

\* score of one segment inside _score_segments
SegmentScore(seg, max_curvature, max_length, width) ==
    LET curv_norm == IF max_curvature > 0
                     THEN Div(seg.curvature, max_curvature) ELSE <<0, 1>>
        len_norm  == IF max_length > 0
                     THEN Div(seg.length, max_length) ELSE <<0, 1>>
        ratio     == Div(seg.distance_from_route, width)
        prox_norm == IF Raised(ratio) THEN ZeroDivisionError
                     ELSE RatMax0(Rat(ratio[2] - ratio[1], ratio[2]))
    IN  RatAdd(RatAdd(RatMul(curv_norm, <<1, 2>>),
                      RatMul(len_norm, <<3, 10>>)),
               RatMul(prox_norm, <<1, 5>>))

\* raw scored list before the final sort
ScoreEach(segs, width) ==
    LET max_curvature == SeqMax(segs, Curvature)
        max_length    == SeqMax(segs, Length)
    IN  [ i \in DOMAIN segs |->
            [id |-> segs[i].id, name |-> segs[i].name,
             curvature |-> segs[i].curvature, length |-> segs[i].length,
             distance_from_route |-> segs[i].distance_from_route,
             route_position |-> segs[i].route_position,
             centroid_lng |-> segs[i].centroid_lng,
             centroid_lat |-> segs[i].centroid_lat,
             score |-> SegmentScore(segs[i], max_curvature, max_length,
                                    width)] ]

ScoreRaised(list) == \E i \in DOMAIN list : Raised(list[i].score)

_score_segments(segs, width) ==
    IF segs = << >> THEN << >>
    ELSE LET raw == ScoreEach(segs, width)
         IN  IF ScoreRaised(raw) THEN raw ELSE SortByScoreDescending(raw)

\* a spacing test with a threshold of 0.02
too_close_Narrower(seg, sel) ==
    \E i \in DOMAIN sel :
        Abs(seg.route_position - sel[i].route_position) < 20

\* a spacing test against the first accepted segment only
too_close_FirstOnly(seg, sel) ==
    /\ sel # << >>
    /\ Abs(seg.route_position - sel[1].route_position) < 30

\* spacing test of _select_segments
too_close(seg, sel) ==
    \E i \in DOMAIN sel :
        Abs(seg.route_position - sel[i].route_position) < 30

RECURSIVE SelectFrom(_, _, _, _)
SelectFrom(list, i, sel, cap) ==
    IF i > Len(list) \/ Len(sel) >= cap THEN sel
    ELSE SelectFrom(list, i + 1,
                    IF too_close(list[i], sel) THEN sel
                    ELSE Append(sel, list[i]),
                    cap)

\* a selection that ignores max_waypoints
_select_segments_Uncapped(list, cap) == SelectFrom(list, 1, << >>, Len(list))

\* a selection that returns the accepted segments last-accepted first
_select_segments_Reversed(list, cap) ==
    LET sel == SelectFrom(list, 1, << >>, cap)
    IN  [ i \in DOMAIN sel |-> sel[Len(sel) + 1 - i] ]

_select_segments(list, cap) == SelectFrom(list, 1, << >>, cap)

\* a waypoint list that stops at the last centroid
_build_waypoint_list_NoEnd(req, sel) ==
    <<req.start>>
    \o [ i \in DOMAIN sel |->
           [lng |-> sel[i].centroid_lng, lat |-> sel[i].centroid_lat] ]

\* a waypoint list with the centroids in reverse order
_build_waypoint_list_Reversed(req, sel) ==
    <<req.start>>
    \o [ i \in DOMAIN sel |->
           [lng |-> sel[Len(sel) + 1 - i].centroid_lng,
            lat |-> sel[Len(sel) + 1 - i].centroid_lat] ]
    \o <<req.end>>

_build_waypoint_list(req, sel) ==
    <<req.start>>
    \o [ i \in DOMAIN sel |->
           [lng |-> sel[i].centroid_lng, lat |-> sel[i].centroid_lat] ]
    \o <<req.end>>

_build_segment_infos(sel) ==
    [ i \in DOMAIN sel |->
        [id |-> sel[i].id, name |-> sel[i].name,
         curvature |-> sel[i].curvature, length |-> sel[i].length,
         score |-> Round(sel[i].score, 1000)] ]

\* variant: the division without its guard
DetourRatio_Unguarded(route, base) == Div(route.distance, base.distance)

\* variant: a zero-length baseline gives ratio 0.0
DetourRatio_ZeroForZero(route, base) ==
    IF base.distance > 0 THEN Div(route.distance, base.distance)
    ELSE <<0, 1>>

\* variant: a zero-length baseline gives a ratio beyond every budget
DetourRatio_UnboundedForZero(route, base) ==
    IF base.distance > 0 THEN Div(route.distance, base.distance)
    ELSE <<1000, 1>>

\* route.distance / baseline.distance if baseline.distance > 0 else 1.0
DetourRatio(route, base) ==
    IF base.distance > 0 THEN Div(route.distance, base.distance)
    ELSE <<1, 1>>

\* variant: the comparison written with >=
OverBudget_AtEquality(ratio, max_detour_ratio) == RatLE(max_detour_ratio, ratio)

\* detour_ratio > options.max_detour_ratio
OverBudget(ratio, max_detour_ratio) == RatLT(max_detour_ratio, ratio)

RECURSIVE SumCurvature(_)
SumCurvature(infos) ==
    IF infos = << >> THEN 0
    ELSE infos[1].curvature + SumCurvature(Tail(infos))

_build_response(route, base, curvy_segments, generated_waypoints, width) ==
    [kind |-> "result",
     geometry |-> route.geometry,
     distance |-> route.distance,
     duration |-> route.duration,
     baseline_distance |-> base.distance,
     baseline_duration |-> base.duration,
     detour_ratio |-> Round(DetourRatio(route, base), 100),
     curvy_segments |-> curvy_segments,
     total_curvature_score |-> SumCurvature(curvy_segments),
     waypoints_used |-> Len(curvy_segments),
     corridor_width |-> width,
     generated_waypoints |-> generated_waypoints]

-----------------------------------------------------------------------------
(* The request *)

MaxRetries == 3

ShortRouteDistance == 5000

ShortRouteCorridorWidth == 5000

ShortRouteMaxWaypoints == 10

Requests ==
    { [start |-> Start, end |-> End,
       options |-> [corridor_width |-> wc[1],
                    min_curvature |-> DefaultMinCurvature,
                    min_segment_length |-> DefaultMinSegmentLength,
                    max_waypoints |-> wc[2],
                    max_detour_ratio |-> m]] :
        wc \in WidthsAndCaps, m \in MaxDetourRatios }

Init ==
    /\ request \in Requests
    /\ pc = "start"
    /\ calls = << >>
    /\ call_kinds = << >>
    /\ answers = << >>
    /\ corridor_calls = << >>
    /\ baseline = NoRoute
    /\ corridor_width = 0
    /\ max_waypoints = 0
    /\ segments = << >>
    /\ scored = << >>
    /\ selected = << >>
    /\ remaining = << >>
    /\ attempt = 0
    /\ waypoint_list = << >>
    /\ final_route = NoRoute
    /\ response = NoResponse

\* await self.osrm.calculate_route(list): the call is issued and the
\* coroutine waits at `at`
Await(list, kind, at) ==
    /\ calls' = Append(calls, list)
    /\ call_kinds' = Append(call_kinds, kind)
    /\ waypoint_list' = list
    /\ pc' = at

\* return of find_curvy_route through the router
Return(r) ==
    /\ response' = r
    /\ pc' = "done"

\* an OSRMError leaves calculate_route, passes through the service and is
\* turned into HTTPException(status_code, detail) by the router
Raise(e) ==
    /\ answers' = Append(answers, e.cause)
    /\ response' = [kind |-> "error", cause |-> e.cause,
                    status_code |-> e.status_code, raised_at |-> pc]
    /\ pc' = "failed"

\* an unhandled ZeroDivisionError leaves the service
Crash ==
    /\ response' = [kind |-> "crash"]
    /\ pc' = "crashed"

\* return self._build_response(...)
Respond(r, base, curvy_segments, generated_waypoints, width) ==
    IF Raised(DetourRatio(r, base)) THEN Crash
    ELSE Return(_build_response(r, base, curvy_segments,
                                generated_waypoints, width))

\* variant: the short-route test written with <=
EffectiveCorridorWidth_Inclusive(options, base) ==
    IF base.distance <= ShortRouteDistance
    THEN Min(options.corridor_width, ShortRouteCorridorWidth)
    ELSE options.corridor_width

\* corridor_width after "Reduce corridor for very short routes"
EffectiveCorridorWidth(options, base) ==
    IF base.distance < ShortRouteDistance
    THEN Min(options.corridor_width, ShortRouteCorridorWidth)
    ELSE options.corridor_width

\* variant: the short-route cap taken off max_waypoints
EffectiveMaxWaypoints_Shrunk(options, base) ==
    IF base.distance < ShortRouteDistance
    THEN Min(options.max_waypoints, ShortRouteMaxWaypoints) - 5
    ELSE options.max_waypoints

\* max_waypoints after "Reduce corridor for very short routes"
EffectiveMaxWaypoints(options, base) ==
    IF base.distance < ShortRouteDistance
    THEN Min(options.max_waypoints, ShortRouteMaxWaypoints)
    ELSE options.max_waypoints

\* Step 1: the baseline call is issued
CallBaseline ==
    /\ pc = "start"
    /\ Await(<<request.start, request.end>>, "baseline", "await_baseline")
    /\ UNCHANGED <<request, answers, corridor_calls, baseline, corridor_width,
                   max_waypoints, segments, scored, selected, remaining,
                   attempt, final_route, response>>

\* variant: the corridor is queried before the baseline error leaves the
\* service
BaselineRaises_AfterCorridorQuery ==
    /\ pc = "await_baseline"
    /\ \E e \in OSRMErrors : Raise(e)
    /\ corridor_calls' =
         Append(corridor_calls,
                [buffer_meters |-> request.options.corridor_width,
                 min_curvature |-> request.options.min_curvature,
                 min_length |-> request.options.min_segment_length])
    /\ UNCHANGED <<request, calls, call_kinds, baseline,
                   corridor_width, max_waypoints, segments, scored, selected,
                   remaining, attempt, waypoint_list, final_route>>

\* the baseline call raises OSRMError
BaselineRaises ==
    /\ pc = "await_baseline"
    /\ \E e \in OSRMErrors : Raise(e)
    /\ UNCHANGED <<request, calls, call_kinds, corridor_calls, baseline,
                   corridor_width, max_waypoints, segments, scored, selected,
                   remaining, attempt, waypoint_list, final_route>>

\* Steps 2-6: the baseline call returns `base` and the corridor query
\* returns `segs`; runs up to the candidate-route call
BaselineReturns ==
    /\ pc = "await_baseline"
    /\ answers' = Append(answers, "route")
    /\ \E base \in EngineRoutes(Len(calls), BaselineDistances),
          segs \in CorridorResults :
        LET width == EffectiveCorridorWidth(request.options, base)
            cap   == EffectiveMaxWaypoints(request.options, base)
            sc    == _score_segments(segs, width)
            sel   == _select_segments(sc, cap)
            srt   == SortByRoutePosition(sel)
        IN  /\ baseline' = base
            /\ corridor_width' = width
            /\ max_waypoints' = cap
            /\ corridor_calls' =
                 Append(corridor_calls,
                        [buffer_meters |-> width,
                         min_curvature |-> request.options.min_curvature,
                         min_length |-> request.options.min_segment_length])
            /\ segments' = segs
            /\ IF segs = << >>
               THEN /\ Respond(base, base, << >>, << >>, width)
                    /\ UNCHANGED <<scored, selected, calls, call_kinds,
                                   waypoint_list>>
               ELSE IF ScoreRaised(sc)
               THEN /\ Crash
                    /\ UNCHANGED <<scored, selected, calls, call_kinds,
                                   waypoint_list>>
               ELSE IF sel = << >>
               THEN /\ scored' = sc
                    /\ Respond(base, base, << >>, << >>, width)
                    /\ UNCHANGED <<selected, calls, call_kinds, waypoint_list>>
               ELSE /\ scored' = sc
                    /\ selected' = srt
                    /\ Await(_build_waypoint_list(request, srt), "candidate",
                             "await_candidate")
                    /\ UNCHANGED response
    /\ UNCHANGED <<request, remaining, attempt, final_route>>

\* variant: the loop is not bounded by max_retries
ContinueTrimming_Unbounded(rem, att) == Len(rem) > 1

\* variant: the loop breaks only on an empty list
ContinueTrimming_ToEmpty(rem, att) == att < MaxRetries /\ Len(rem) > 0

\* variant: one retry fewer
ContinueTrimming_TwoRetries(rem, att) == att < MaxRetries - 1 /\ Len(rem) > 1

\* for _ in range(max_retries) has another iteration and it does not break
ContinueTrimming(rem, att) == att < MaxRetries /\ Len(rem) > 1

\* variant: the segment met first on the route is dropped
TrimStep_DropsFirstOnRoute(rem, att) ==
    IF ContinueTrimming(rem, att)
    THEN LET trimmed == Tail(SortByRoutePosition(rem))
         IN  /\ remaining' = trimmed
             /\ attempt' = att + 1
             /\ Await(_build_waypoint_list(request, trimmed), "trim",
                      "await_trim")
    ELSE LET srt == SortByRoutePosition(rem)
         IN  /\ remaining' = srt
             /\ attempt' = att
             /\ Await(_build_waypoint_list(request, srt), "last",
                      "await_last")

\* head of the loop of _trim_for_detour, run with the working list `rem`
\* after `att` iterations: either the next trim call or the last attempt
TrimStep(rem, att) ==
    IF ContinueTrimming(rem, att)
    THEN LET trimmed == SortByRoutePosition(Tail(SortByScore(rem)))
         IN  /\ remaining' = trimmed
             /\ attempt' = att + 1
             /\ Await(_build_waypoint_list(request, trimmed), "trim",
                      "await_trim")
    ELSE LET srt == SortByRoutePosition(rem)
         IN  /\ remaining' = srt
             /\ attempt' = att
             /\ Await(_build_waypoint_list(request, srt), "last",
                      "await_last")

\* the candidate-route call raises OSRMError
CandidateRaises ==
    /\ pc = "await_candidate"
    /\ \E e \in OSRMErrors : Raise(e)
    /\ UNCHANGED <<request, calls, call_kinds, corridor_calls, baseline,
                   corridor_width, max_waypoints, segments, scored, selected,
                   remaining, attempt, waypoint_list, final_route>>

\* Step 7: the candidate-route call returns `r`
CandidateReturns ==
    /\ pc = "await_candidate"
    /\ answers' = Append(answers, "route")
    /\ \E r \in EngineRoutes(Len(calls), RouteDistances) :
        LET detour_ratio == DetourRatio(r, baseline)
        IN  /\ final_route' = r
            /\ IF Raised(detour_ratio)
               THEN /\ Crash
                    /\ UNCHANGED <<calls, call_kinds, waypoint_list,
                                   remaining, attempt>>
               ELSE IF OverBudget(detour_ratio,
                                  request.options.max_detour_ratio)
               THEN /\ TrimStep(selected, 0)
                    /\ UNCHANGED response
               ELSE /\ Respond(r, baseline,
                                 _build_segment_infos(selected),
                                 waypoint_list, corridor_width)
                    /\ UNCHANGED <<calls, call_kinds, waypoint_list,
                                   remaining, attempt>>
    /\ UNCHANGED <<request, corridor_calls, baseline, corridor_width,
                   max_waypoints, segments, scored, selected>>

\* variant: an OSRMError of a trim-retry call is caught and counted as an
\* over-budget attempt
TrimRaises_ConsumesRetry ==
    /\ pc = "await_trim"
    /\ \E e \in OSRMErrors : answers' = Append(answers, e.cause)
    /\ TrimStep(remaining, attempt)
    /\ UNCHANGED <<request, corridor_calls, baseline, corridor_width,
                   max_waypoints, segments, scored, selected, final_route,
                   response>>

\* a trim-retry call raises OSRMError
TrimRaises ==
    /\ pc = "await_trim"
    /\ \E e \in OSRMErrors : Raise(e)
    /\ UNCHANGED <<request, calls, call_kinds, corridor_calls, baseline,
                   corridor_width, max_waypoints, segments, scored, selected,
                   remaining, attempt, waypoint_list, final_route>>

\* variant: the segment summaries of the untrimmed selection are returned
TrimReturns_StaleSegments ==
    /\ pc = "await_trim"
    /\ answers' = Append(answers, "route")
    /\ \E r \in EngineRoutes(Len(calls), RouteDistances) :
        LET ratio == DetourRatio(r, baseline)
        IN  IF Raised(ratio)
            THEN /\ Crash
                 /\ UNCHANGED <<calls, call_kinds, waypoint_list,
                                remaining, attempt, selected, final_route>>
            ELSE IF ~OverBudget(ratio, request.options.max_detour_ratio)
            THEN /\ final_route' = r
                 /\ selected' = remaining
                 /\ Respond(r, baseline,
                              _build_segment_infos(selected),
                              waypoint_list, corridor_width)
                 /\ UNCHANGED <<calls, call_kinds, waypoint_list,
                                remaining, attempt>>
            ELSE /\ TrimStep(remaining, attempt)
                 /\ UNCHANGED <<response, selected, final_route>>
    /\ UNCHANGED <<request, corridor_calls, baseline, corridor_width,
                   max_waypoints, segments, scored>>

\* a trim-retry call returns `r`
TrimReturns ==
    /\ pc = "await_trim"
    /\ answers' = Append(answers, "route")
    /\ \E r \in EngineRoutes(Len(calls), RouteDistances) :
        LET ratio == DetourRatio(r, baseline)
        IN  IF Raised(ratio)
            THEN /\ Crash
                 /\ UNCHANGED <<calls, call_kinds, waypoint_list,
                                remaining, attempt, selected, final_route>>
            ELSE IF ~OverBudget(ratio, request.options.max_detour_ratio)
            THEN /\ final_route' = r
                 /\ selected' = remaining
                 /\ Respond(r, baseline,
                              _build_segment_infos(remaining),
                              waypoint_list, corridor_width)
                 /\ UNCHANGED <<calls, call_kinds, waypoint_list,
                                remaining, attempt>>
            ELSE /\ TrimStep(remaining, attempt)
                 /\ UNCHANGED <<response, selected, final_route>>
    /\ UNCHANGED <<request, corridor_calls, baseline, corridor_width,
                   max_waypoints, segments, scored>>

\* the call of the last attempt raises OSRMError
LastRaises ==
    /\ pc = "await_last"
    /\ \E e \in OSRMErrors : Raise(e)
    /\ UNCHANGED <<request, calls, call_kinds, corridor_calls, baseline,
                   corridor_width, max_waypoints, segments, scored, selected,
                   remaining, attempt, waypoint_list, final_route>>

\* the call of the last attempt returns `r`
LastReturns ==
    /\ pc = "await_last"
    /\ answers' = Append(answers, "route")
    /\ \E r \in EngineRoutes(Len(calls), RouteDistances) :
        LET ratio == DetourRatio(r, baseline)
        IN  IF Raised(ratio)
            THEN /\ Crash
                 /\ UNCHANGED <<selected, final_route>>
            ELSE /\ final_route' = r
                 /\ selected' = remaining
                 /\ Respond(r, baseline,
                              _build_segment_infos(remaining),
                              waypoint_list, corridor_width)
    /\ UNCHANGED <<request, calls, call_kinds, corridor_calls, baseline,
                   corridor_width, max_waypoints, segments, scored,
                   remaining, attempt, waypoint_list>>

Next ==
    \/ CallBaseline
    \/ BaselineRaises
    \/ BaselineReturns
    \/ CandidateRaises
    \/ CandidateReturns
    \/ TrimRaises
    \/ TrimReturns
    \/ LastRaises
    \/ LastReturns

Spec == Init /\ [][Next]_vars

-----------------------------------------------------------------------------
(* Properties *)

Ids(list) == [ i \in DOMAIN list |-> list[i].id ]

\* distance(r) / distance(base) <= m, for a positive baseline distance
RatioWithin(r, base, m) ==
    base.distance > 0 /\ r.distance * m[2] <= m[1] * base.distance

\* number of segments in the waypoint list of the candidate-route call
InitialSize == Len(calls[2]) - 2

NumberOfCalls(kind) ==
    Cardinality({ i \in DOMAIN call_kinds : call_kinds[i] = kind })

\* C1: when the candidate route's ratio to the baseline is at most
\* max_detour_ratio (equality included), the step that receives it ends the
\* request with that route and the complete initial selection, and issues no
\* further routing-engine call.
C1_AcceptedWithoutTrimming ==
    [][ ( /\ pc = "await_candidate"
          /\ pc' # "failed"
          /\ RatioWithin(final_route', baseline,
                         request.options.max_detour_ratio) )
        => ( /\ pc' = "done"
             /\ response'.kind = "result"
             /\ response'.geometry = final_route'.geometry
             /\ response'.distance = final_route'.distance
             /\ response'.duration = final_route'.duration
             /\ Ids(response'.curvy_segments) = Ids(selected)
             /\ response'.generated_waypoints = calls[2]
             /\ calls' = calls
             /\ Len(calls') = 2 ) ]_vars

\* a request accepted at exactly ratio = max_detour_ratio, two or more segments
C1_Witness ==
    /\ pc = "done"
    /\ response.kind = "result"
    /\ Len(calls) = 2
    /\ response.waypoints_used >= 2
    /\ response.distance * request.options.max_detour_ratio[2]
         = request.options.max_detour_ratio[1] * baseline.distance

\* C2: at most 3 trim retries are made and at most 3 segments are removed:
\* every waypoint list routed, and the final selection, keep at least
\* (initial selection size - 3) segments.
C2_AtMostThreeTrims ==
    /\ NumberOfCalls("trim") <= 3
    /\ attempt <= 3
    /\ \A i \in DOMAIN calls :
         i >= 2 => Len(calls[i]) - 2 >= InitialSize - 3
    /\ pc \in {"await_trim", "await_last"}
         => Len(remaining) >= InitialSize - 3
    /\ (response.kind = "result" /\ Len(calls) >= 2)
         => response.waypoints_used >= InitialSize - 3

\* three segments trimmed from a selection of five, and the result returned
C2_Witness ==
    /\ pc = "done"
    /\ response.kind = "result"
    /\ Len(calls) >= 2
    /\ InitialSize = 5
    /\ response.waypoints_used = 2
    /\ NumberOfCalls("trim") = 3

\* C3: the trim loop never removes the only remaining segment: with a
\* non-empty initial selection, every waypoint list routed and the final
\* selection hold at least one segment.
C3_NeverBelowOneSegment ==
    /\ \A i \in DOMAIN calls : i >= 2 => Len(calls[i]) >= 3
    /\ pc \in {"await_trim", "await_last"} => Len(remaining) >= 1
    /\ (response.kind = "result" /\ Len(calls) >= 2 /\ InitialSize >= 1)
         => /\ response.waypoints_used >= 1
            /\ Len(selected) >= 1

\* trimming stopped at one segment before the retry budget was used up
C3_Witness ==
    /\ pc = "done"
    /\ response.kind = "result"
    /\ Len(calls) >= 2
    /\ InitialSize = 2
    /\ response.waypoints_used = 1
    /\ NumberOfCalls("trim") = 1
    /\ NumberOfCalls("last") = 1

\* the request has ended
Ended == pc \in {"done", "failed", "crashed"}

\* C4: the engine calls of a request are made one after the other: the
\* baseline call, then the candidate call, then at most three further calls
\* (the trim retries); a request never issues more than five engine calls.
C4_AtMostFiveSequentialCalls ==
    /\ Len(calls) <= 5
    /\ Len(calls) - Len(answers) \in {0, 1}
    /\ \A i \in DOMAIN call_kinds :
         /\ i = 1 => call_kinds[i] = "baseline"
         /\ i = 2 => call_kinds[i] = "candidate"
         /\ i >= 3 => call_kinds[i] \in {"trim", "last"}

\* the trim loop has ended without an accepted route: the candidate route
\* and every trim attempt exceeded max_detour_ratio
Exhausted == NumberOfCalls("last") >= 1

\* C5: when the candidate route and every trim attempt exceeded
\* max_detour_ratio and trimming has stopped, the request ends with a result,
\* never an error, and that result is over budget.
C5_ExhaustedStillReturns ==
    (Ended /\ Exhausted)
        => /\ response.kind = "result"
           /\ baseline.distance > 0
           /\ ~RatioWithin(final_route, baseline,
                           request.options.max_detour_ratio)

C7_BaselineFailureIsImmediate ==
    (Len(answers) >= 1 /\ answers[1] # "route")
        => /\ pc = "failed"
           /\ response.kind = "error"
           /\ response.cause = answers[1]
           /\ response.raised_at = "await_baseline"
           /\ corridor_calls = << >>
           /\ segments = << >>
           /\ scored = << >>
           /\ selected = << >>
           /\ Len(calls) = 1

\* the baseline call found no route
C7_Witness ==
    /\ pc = "failed"
    /\ Len(answers) = 1
    /\ answers[1] = "no-route"
    /\ response.status_code = 422

\* C8: the request fails only with the error of an engine call; no
\* arithmetic error is raised, and a request whose engine calls all
\* succeeded ends with a well-formed result.
C8_FailsOnlyOnEngineError ==
    /\ pc # "crashed"
    /\ pc = "failed"
         => /\ answers[Len(answers)] # "route"
            /\ response.kind = "error"
            /\ response.cause = answers[Len(answers)]
    /\ (Ended /\ \A i \in DOMAIN answers : answers[i] = "route")
         => /\ pc = "done"
            /\ response.kind = "result"
            /\ response.detour_ratio >= 0
            /\ response.waypoints_used = Len(response.curvy_segments)
            /\ \A i \in DOMAIN response.curvy_segments :
                 /\ response.curvy_segments[i].score >= 0
                 /\ response.curvy_segments[i].score <= 1000

\* a result for a zero-length baseline and a single candidate of curvature 0
\* and length 0
C8_Witness ==
    /\ pc = "done"
    /\ baseline.distance = 0
    /\ Len(segments) = 1
    /\ segments[1].curvature = 0
    /\ segments[1].length = 0
    /\ response.kind = "result"
    /\ response.waypoints_used = 1

\* C9: when the corridor query returns no candidates the result is the
\* baseline itself, with detour_ratio 1.0, no curvy segments, waypoints_used
\* 0, and the baseline call is the only engine call.
C9_EmptyCorridorGivesBaseline ==
    (Ended /\ corridor_calls # << >> /\ segments = << >>)
        => /\ pc = "done"
           /\ response.kind = "result"
           /\ response.geometry = baseline.geometry
           /\ response.distance = baseline.distance
           /\ response.duration = baseline.duration
           /\ response.baseline_distance = baseline.distance
           /\ response.detour_ratio = 100
           /\ response.curvy_segments = << >>
           /\ response.waypoints_used = 0
           /\ Len(calls) = 1
           /\ call_kinds = <<"baseline">>

\* the baseline returned for an empty corridor
C9_Witness ==
    /\ pc = "done"
    /\ Len(corridor_calls) = 1
    /\ segments = << >>
    /\ baseline.distance = 50000
    /\ response.kind = "result"

\* C10: for a baseline shorter than 5000 m the corridor query and the result
\* use min(corridor_width, 5000) and the selection cap is
\* min(max_waypoints, 10); otherwise the caller's values are used unchanged.
C10_ShortRouteCaps ==
    corridor_calls # << >>
        => LET short == baseline.distance < 5000
               w == IF short /\ request.options.corridor_width > 5000
                    THEN 5000 ELSE request.options.corridor_width
               c == IF short /\ request.options.max_waypoints > 10
                    THEN 10 ELSE request.options.max_waypoints
           IN  /\ Len(corridor_calls) = 1
               /\ corridor_calls[1].buffer_meters = w
               /\ corridor_width = w
               /\ max_waypoints = c
               /\ response.kind = "result" => response.corridor_width = w

\* a 3000 m baseline with corridor_width 15000 and max_waypoints 20
C10_Witness ==
    /\ pc = "done"
    /\ baseline.distance = 3000
    /\ request.options.corridor_width = 15000
    /\ request.options.max_waypoints = 20
    /\ corridor_calls[1].buffer_meters = 5000
    /\ max_waypoints = 10
    /\ response.kind = "result"
    /\ response.corridor_width = 5000
    /\ response.waypoints_used >= 1

-----------------------------------------------------------------------------
(* The helpers on their own: _score_segments, _select_segments and        *)
(* _build_waypoint_list applied once to an input drawn from a bounded set. *)

\* longest list handed to _select_segments
MaxScored == 6

\* longest list handed to _score_segments
MaxCandidates == 2

\* effective max_waypoints values handed to _select_segments
SelectCaps == {5, 10}

\* effective corridor widths handed to _score_segments
ScoreWidths == {5000, 15000}

\* scored candidates as _select_segments reads them (id, score,
\* route_position), as in TestSegmentSelection
ScoredRows == {
    [id |-> 1, score |-> <<9, 10>>, route_position |-> 500],
    [id |-> 2, score |-> <<4, 5>>, route_position |-> 510],
    [id |-> 3, score |-> <<19, 20>>, route_position |-> 800],
    [id |-> 4, score |-> <<4, 5>>, route_position |-> 530],
    [id |-> 5, score |-> <<7, 10>>, route_position |-> 100],
    [id |-> 6, score |-> <<7, 10>>, route_position |-> 200],
    [id |-> 7, score |-> <<0, 1>>, route_position |-> 900] }

\* lists of distinct elements of `rows`, at most n long
RECURSIVE ListsOf(_, _)
ListsOf(rows, n) ==
    IF n = 0 THEN {<< >>}
    ELSE LET shorter == ListsOf(rows, n - 1)
         IN  shorter \cup
             UNION { { Append(l, r) :
                         r \in { x \in rows :
                                   \A i \in 1..Len(l) : l[i] # x } } :
                     l \in { t \in shorter : Len(t) = n - 1 } }

SelectInputs == ListsOf(ScoredRows, MaxScored)

\* candidates as _score_segments reads them, as in TestSegmentScoring
CandidateRows ==
    { [id |-> 1 + (c \div 1000) + 4 * (l \div 5000) + 20 * (d \div 1000),
       name |-> "c", curvature |-> c, length |-> l,
       distance_from_route |-> d, route_position |-> 500,
       centroid_lng |-> -7265, centroid_lat |-> 4410] :
        c \in {0, 1000, 3000}, l \in {0, 5000, 20000},
        d \in {0, 5000, 14000, 20000} }

ScoreInputs == ListsOf(CandidateRows, MaxCandidates)

FnInit ==
    /\ request \in { r \in Requests :
                       /\ r.options.corridor_width = 15000
                       /\ r.options.max_detour_ratio = <<5, 2>> }
    /\ calls = << >>
    /\ call_kinds = << >>
    /\ answers = << >>
    /\ corridor_calls = << >>
    /\ baseline = NoRoute
    /\ remaining = << >>
    /\ attempt = 0
    /\ final_route = NoRoute
    /\ response = NoResponse
    /\ waypoint_list = << >>
    /\ \/ /\ pc = "score_in"
          /\ segments \in ScoreInputs
          /\ corridor_width \in ScoreWidths
          /\ max_waypoints = 0
          /\ scored = << >>
          /\ selected = << >>
       \/ /\ pc = "select_in"
          /\ scored \in SelectInputs
          /\ max_waypoints \in SelectCaps
          /\ corridor_width = 0
          /\ segments = << >>
          /\ selected = << >>
       \/ /\ pc = "build_in"
          /\ selected \in CorridorResults
          /\ corridor_width = 0
          /\ max_waypoints = 0
          /\ segments = << >>
          /\ scored = << >>

\* scored = self._score_segments(segments, corridor_width)
FnScore ==
    /\ pc = "score_in"
    /\ LET sc == _score_segments(segments, corridor_width)
       IN  IF ScoreRaised(sc)
           THEN /\ Crash
                /\ UNCHANGED scored
           ELSE /\ scored' = sc
                /\ pc' = "score_out"
                /\ UNCHANGED response
    /\ UNCHANGED <<request, calls, call_kinds, answers, corridor_calls,
                   baseline, corridor_width, max_waypoints, segments,
                   selected, remaining, attempt, waypoint_list, final_route>>

\* selected = self._select_segments(scored, max_waypoints)
FnSelect ==
    /\ pc = "select_in"
    /\ selected' = _select_segments(scored, max_waypoints)
    /\ pc' = "select_out"
    /\ UNCHANGED <<request, calls, call_kinds, answers, corridor_calls,
                   baseline, corridor_width, max_waypoints, segments, scored,
                   remaining, attempt, waypoint_list, final_route, response>>

\* waypoint_list = self._build_waypoint_list(request, selected)
FnBuild ==
    /\ pc = "build_in"
    /\ waypoint_list' = _build_waypoint_list(request, selected)
    /\ pc' = "build_out"
    /\ UNCHANGED <<request, calls, call_kinds, answers, corridor_calls,
                   baseline, corridor_width, max_waypoints, segments, scored,
                   selected, remaining, attempt, final_route, response>>

FnNext ==
    \/ FnScore
    \/ FnSelect
    \/ FnBuild

FnSpec == FnInit /\ [][FnNext]_vars

-----------------------------------------------------------------------------
(* Properties of the helpers *)

InList(list, x) == \E i \in DOMAIN list : list[i] = x

IndexIn(list, x) == CHOOSE i \in DOMAIN list : list[i] = x

DescendingByScore(list) ==
    \A i \in DOMAIN list : \A j \in DOMAIN list :
        i < j => RatLE(list[j].score, list[i].score)

Spacing(a, b) == Abs(a.route_position - b.route_position)

\* C11: _select_segments never returns more than max_waypoints entries,
\* whatever list of scored candidates it is given.
C11_SelectionWithinCap ==
    pc = "select_out" => Len(selected) <= max_waypoints

\* the cap binds: a candidate far enough from every selected one is left out
C11_Witness ==
    /\ pc = "select_out"
    /\ Len(selected) = max_waypoints
    /\ \E i \in DOMAIN scored :
          /\ ~InList(selected, scored[i])
          /\ ~too_close(scored[i], selected)

\* C12 as stated: every two entries _select_segments returns differ in
\* route_position by more than 0.03.
C12_SpacedByMoreThanThreshold ==
    pc = "select_out" =>
        \A i \in DOMAIN selected : \A j \in DOMAIN selected :
            i # j => Spacing(selected[i], selected[j]) > 30

\* C12 amended: every two entries _select_segments returns differ in
\* route_position by at least 0.03; a difference of exactly 0.03 is accepted.
C12_SpacedByAtLeastThreshold ==
    pc = "select_out" =>
        \A i \in DOMAIN selected : \A j \in DOMAIN selected :
            i # j => Spacing(selected[i], selected[j]) >= 30

\* two entries exactly 0.03 apart are both returned while a closer candidate
\* has been left out
C12_Witness ==
    /\ pc = "select_out"
    /\ \E i \in DOMAIN selected : \E j \in DOMAIN selected :
          Spacing(selected[i], selected[j]) = 30
    /\ \E i \in DOMAIN scored :
          /\ ~InList(selected, scored[i])
          /\ too_close(scored[i], selected)

\* C13 as stated: whatever the order of the list it is given,
\* _select_segments considers the candidates in descending score order: what
\* it returns is in descending score order and is what it returns for the
\* same list sorted by descending score.
C13_SelectsInScoreOrder ==
    pc = "select_out" =>
        /\ DescendingByScore(selected)
        /\ selected =
             _select_segments(SortByScoreDescending(scored), max_waypoints)

\* C13 amended: _select_segments considers the candidates in the order of
\* the list it is given and returns them in that order; what it returns is
\* in descending score order when the list is, as the list _score_segments
\* returns always is.
C13_SelectsInInputOrder ==
    pc = "select_out" =>
        /\ \A i \in DOMAIN selected : InList(scored, selected[i])
        /\ \A i \in DOMAIN selected : \A j \in DOMAIN selected :
              i < j => IndexIn(scored, selected[i])
                         < IndexIn(scored, selected[j])
        /\ scored # << >> => selected # << >> /\ selected[1] = scored[1]
        /\ DescendingByScore(scored) => DescendingByScore(selected)

\* a list that is not in score order gives a selection that is not either
C13_Witness ==
    /\ pc = "select_out"
    /\ Len(selected) >= 2
    /\ ~DescendingByScore(scored)
    /\ ~DescendingByScore(selected)

\* C14: given candidates in descending score order, _select_segments leaves
\* a candidate out only when max_waypoints entries were already accepted or
\* an accepted candidate with a score at least as high lies closer than 0.03
\* to it, and never returns both of two candidates closer than 0.03.
C14_KeepsBetterOfClosePair ==
    (pc = "select_out" /\ DescendingByScore(scored)) =>
        /\ \A i \in DOMAIN scored :
              ~InList(selected, scored[i]) =>
                  \/ Len(selected) = max_waypoints
                  \/ \E j \in DOMAIN selected :
                        /\ RatLE(scored[i].score, selected[j].score)
                        /\ Spacing(scored[i], selected[j]) < 30
        /\ \A i \in DOMAIN scored : \A j \in DOMAIN scored :
              (i # j /\ Spacing(scored[i], scored[j]) < 30) =>
                  ~(InList(selected, scored[i]) /\ InList(selected, scored[j]))

\* candidates at 0.80, 0.50 and 0.51 in descending score order: the ones at
\* 0.80 and 0.50 are returned
C14_Witness ==
    /\ pc = "select_out"
    /\ [ i \in DOMAIN scored |-> scored[i].route_position ] = <<800, 500, 510>>
    /\ DescendingByScore(scored)
    /\ [ i \in DOMAIN selected |-> selected[i].route_position ] = <<800, 500>>

\* C15: every score _score_segments produces lies in [0, 1], for candidates
\* with non-negative curvature, length and distance_from_route and a
\* positive corridor width.
C15_ScoreInUnitInterval ==
    pc = "score_out" =>
        \A i \in DOMAIN scored :
            /\ RatLE(<<0, 1>>, scored[i].score)
            /\ RatLE(scored[i].score, <<1, 1>>)

\* one candidate scores exactly 1 and another, beyond the corridor width,
\* scores exactly 0
C15_Witness ==
    /\ pc = "score_out"
    /\ \E i \in DOMAIN scored : scored[i].score = <<1, 1>>
    /\ \E i \in DOMAIN scored :
          /\ scored[i].score = <<0, 1>>
          /\ scored[i].distance_from_route > corridor_width

\* C16 as stated: of two candidates of one set that agree on two of
\* curvature, length and distance_from_route, the one with the larger
\* curvature, the larger length or the smaller distance_from_route scores
\* strictly higher.
C16_StrictlyMonotonic ==
    pc = "score_out" =>
        \A i \in DOMAIN scored : \A j \in DOMAIN scored :
            LET a == scored[i]
                b == scored[j]
            IN  /\ (/\ a.length = b.length
                    /\ a.distance_from_route = b.distance_from_route
                    /\ a.curvature > b.curvature)
                       => RatLT(b.score, a.score)
                /\ (/\ a.curvature = b.curvature
                    /\ a.distance_from_route = b.distance_from_route
                    /\ a.length > b.length)
                       => RatLT(b.score, a.score)
                /\ (/\ a.curvature = b.curvature
                    /\ a.length = b.length
                    /\ a.distance_from_route < b.distance_from_route)
                       => RatLT(b.score, a.score)

\* C16 amended: the larger curvature and the larger length score strictly
\* higher; the smaller distance_from_route scores strictly higher when it is
\* below the corridor width, and the same when both distances are at or
\* beyond the corridor width.
C16_MonotonicUpToClamp ==
    pc = "score_out" =>
        \A i \in DOMAIN scored : \A j \in DOMAIN scored :
            LET a == scored[i]
                b == scored[j]
            IN  /\ (/\ a.length = b.length
                    /\ a.distance_from_route = b.distance_from_route
                    /\ a.curvature > b.curvature)
                       => RatLT(b.score, a.score)
                /\ (/\ a.curvature = b.curvature
                    /\ a.distance_from_route = b.distance_from_route
                    /\ a.length > b.length)
                       => RatLT(b.score, a.score)
                /\ (/\ a.curvature = b.curvature
                    /\ a.length = b.length
                    /\ a.distance_from_route < b.distance_from_route)
                       => IF a.distance_from_route < corridor_width
                          THEN RatLT(b.score, a.score)
                          ELSE a.score = b.score

\* two candidates that differ in distance only, both at or beyond the
\* corridor width, and two that differ in distance only, one inside it
C16_Witness ==
    /\ pc = "score_out"
    /\ Len(scored) = 2
    /\ scored[1].curvature = scored[2].curvature
    /\ scored[1].length = scored[2].length
    /\ scored[1].distance_from_route # scored[2].distance_from_route
    /\ scored[1].distance_from_route >= corridor_width
    /\ scored[2].distance_from_route >= corridor_width
    /\ scored[1].score = scored[2].score

\* C17: _score_segments never raises: an empty list gives an empty list, and
\* when the largest curvature (or the largest length) of the set is 0 its
\* term adds 0 to every score.
C17_DegenerateInputScored ==
    /\ pc # "crashed"
    /\ pc = "score_out" =>
         /\ Len(scored) = Len(segments)
         /\ \A i \in DOMAIN scored :
              LET prox == RatMul(RatMax0(Rat(corridor_width
                                               - scored[i].distance_from_route,
                                             corridor_width)),
                                 <<1, 5>>)
                  zero_curvature ==
                      \A k \in DOMAIN segments : segments[k].curvature = 0
                  zero_length ==
                      \A k \in DOMAIN segments : segments[k].length = 0
              IN  /\ ~Raised(scored[i].score)
                  /\ zero_curvature =>
                        RatLE(scored[i].score, RatAdd(<<3, 10>>, prox))
                  /\ zero_length =>
                        RatLE(scored[i].score, RatAdd(<<1, 2>>, prox))
                  /\ (zero_curvature /\ zero_length) =>
                        scored[i].score = prox

\* a set whose curvatures and lengths are all 0 has been scored
C17_Witness ==
    /\ pc = "score_out"
    /\ Len(scored) = 2
    /\ \A k \in DOMAIN segments :
          segments[k].curvature = 0 /\ segments[k].length = 0
    /\ \E i \in DOMAIN scored : scored[i].score = <<1, 5>>

Centroid(seg) == [lng |-> seg.centroid_lng, lat |-> seg.centroid_lat]

\* the centroids of a waypoint list, without its start and end
Centroids(list) == [ k \in 1..(Len(list) - 2) |-> list[k + 1] ]

\* route_position of the segment a centroid waypoint belongs to
PositionOf(waypoint) ==
    (CHOOSE r \in SegmentRows : Centroid(r) = waypoint).route_position

AscendingByPosition(list) ==
    \A i \in DOMAIN list : \A j \in DOMAIN list :
        i < j => list[i].route_position <= list[j].route_position

AscendingCentroids(list) ==
    LET c   == Centroids(list)
        pos == [ k \in DOMAIN c |-> PositionOf(c[k]) ]
    IN  \A i \in DOMAIN pos : \A j \in DOMAIN pos :
            i < j => pos[i] <= pos[j]

\* C18: the list _build_waypoint_list returns has len(selected) + 2
\* waypoints, starts with the request's start, ends with the request's end
\* and holds one centroid per selected segment in between; an empty
\* selection gives [start, end].
C18_StartCentroidsEnd ==
    pc = "build_out" =>
        /\ Len(waypoint_list) = Len(selected) + 2
        /\ waypoint_list[1] = request.start
        /\ waypoint_list[Len(waypoint_list)] = request.end
        /\ \A i \in DOMAIN selected :
              \E k \in DOMAIN Centroids(waypoint_list) :
                  Centroids(waypoint_list)[k] = Centroid(selected[i])
        /\ selected = << >> => waypoint_list = <<request.start, request.end>>

\* a list has been built for a selection of several segments
C18_Witness ==
    /\ pc = "build_out"
    /\ Len(selected) >= 3
    /\ Len(waypoint_list) = Len(selected) + 2

\* C19: every waypoint list find_curvy_route hands to the routing engine
\* after the baseline call has its centroids in ascending route_position
\* order, also after each removal of _trim_for_detour.
C19_EngineListsFollowTravelOrder ==
    \A k \in DOMAIN calls :
        call_kinds[k] # "baseline" => AscendingCentroids(calls[k])

\* a trimmed list of several centroids whose travel order is not its score
\* order has been handed to the engine
C19_Witness ==
    /\ Len(calls) >= 3
    /\ call_kinds[Len(calls)] = "trim"
    /\ Len(remaining) >= 2
    /\ ~DescendingByScore(remaining)
    /\ Centroids(calls[Len(calls)])
         = [ i \in DOMAIN remaining |-> Centroid(remaining[i]) ]

\* C20 as stated: whatever the order of the selection it is given,
\* _build_waypoint_list emits the centroids in ascending route_position
\* order between start and end.
C20_EmitsAscending ==
    pc = "build_out" => AscendingCentroids(waypoint_list)

\* C20 amended: _build_waypoint_list emits the centroids in the order of
\* the selection it is given, which is ascending route_position order when
\* the selection is in that order.
C20_EmitsInInputOrder ==
    pc = "build_out" =>
        /\ Centroids(waypoint_list)
             = [ i \in DOMAIN selected |-> Centroid(selected[i]) ]
        /\ AscendingByPosition(selected) => AscendingCentroids(waypoint_list)

\* a selection that is not in travel order gives a list that is not either
C20_Witness ==
    /\ pc = "build_out"
    /\ Len(selected) >= 2
    /\ ~AscendingByPosition(selected)
    /\ ~AscendingCentroids(waypoint_list)

-----------------------------------------------------------------------------
(* Properties of trimming and of the result *)

\* C21: every trim attempt takes exactly one segment out of the working
\* selection, one whose score is the lowest in it, and leaves the others as
\* they are; a first trim attempt that is within budget ends the request with
\* waypoints_used one less than the size of the initial selection.
C21_TrimRemovesOneLowest ==
    [][ /\ (attempt' = attempt + 1) =>
             LET old == IF pc = "await_candidate" THEN selected
                        ELSE remaining
                 new == remaining'
             IN  /\ Len(new) = Len(old) - 1
                 /\ \A k \in DOMAIN new : InList(old, new[k])
                 /\ \A k \in DOMAIN old :
                       ~InList(new, old[k]) =>
                           \A m \in DOMAIN old :
                               RatLE(old[k].score, old[m].score)
        /\ (pc = "await_trim" /\ attempt = 1 /\ pc' = "done") =>
             /\ response'.kind = "result"
             /\ response'.waypoints_used = InitialSize - 1
             /\ Ids(response'.curvy_segments) = Ids(remaining)
      ]_vars

\* a selection of at least three segments with different scores was over
\* budget, and its first trim was accepted
C21_Witness ==
    /\ response.kind = "result"
    /\ NumberOfCalls("trim") = 1
    /\ NumberOfCalls("last") = 0
    /\ InitialSize >= 3
    /\ response.waypoints_used = InitialSize - 1
    /\ \E i \in DOMAIN selected : \E j \in DOMAIN selected :
          RatLT(selected[i].score, selected[j].score)

\* C22: with a baseline distance of 0 the detour ratio is 1.0: the
\* candidate route is accepted, nothing is trimmed, the reported
\* detour_ratio is 1.0 and no division by zero occurs.
C22_ZeroBaselineAccepted ==
    (pc \notin {"start", "await_baseline"} /\ baseline.distance = 0) =>
        /\ pc # "crashed"
        /\ NumberOfCalls("trim") = 0
        /\ NumberOfCalls("last") = 0
        /\ response.kind = "result" =>
              /\ response.detour_ratio = 100
              /\ Len(calls) = 2 =>
                    /\ response.geometry = 2
                    /\ response.waypoints_used = InitialSize

\* a candidate route of 150 km for a baseline of 0 m has been returned
C22_Witness ==
    /\ baseline.distance = 0
    /\ response.kind = "result"
    /\ Len(calls) = 2
    /\ response.distance = 150000
    /\ response.waypoints_used >= 2

\* C23: in every result generated_waypoints starts with start, ends with
\* end and has waypoints_used + 2 elements, also when there is no curvy
\* segment.
C23_WaypointsStartToEnd ==
    response.kind = "result" =>
        LET gw == response.generated_waypoints
        IN  /\ Len(gw) = response.waypoints_used + 2
            /\ gw[1] = request.start
            /\ gw[Len(gw)] = request.end

RowById(id) == CHOOSE r \in SegmentRows : r.id = id

\* the segment is in the initial selection: its centroid is in the
\* candidate-route call
InitiallySelected(seg) ==
    \E k \in DOMAIN calls[2] : calls[2][k] = Centroid(seg)

ResultOverBudget ==
    /\ response.kind = "result"
    /\ baseline.distance > 0
    /\ response.distance * request.options.max_detour_ratio[2]
         > request.options.max_detour_ratio[1] * baseline.distance

\* C27: a result that is over budget has had exactly 3 segments trimmed
\* from the initial selection or has exactly one segment left.
C27_OverBudgetOnlyWhenExhausted ==
    ResultOverBudget =>
        \/ InitialSize - response.waypoints_used = 3
        \/ response.waypoints_used = 1

\* an over-budget result after three removals that still has two segments
C27_Witness ==
    /\ ResultOverBudget
    /\ InitialSize - response.waypoints_used = 3
    /\ response.waypoints_used = 2

\* C28: after j trim removals the final selection consists of segments of
\* the initial selection, has j fewer of them, misses no segment that scores
\* strictly higher than one it keeps, is in ascending route_position order
\* and keeps every two segments at least 0.03 apart.
C28_FinalSelectionShape ==
    (response.kind = "result" /\ Len(calls) >= 2) =>
        /\ Len(selected) = InitialSize - NumberOfCalls("trim")
        /\ NumberOfCalls("trim") = attempt
        /\ \A k \in DOMAIN selected : InitiallySelected(selected[k])
        /\ \A p \in DOMAIN scored :
              (/\ InitiallySelected(scored[p])
               /\ \A k \in DOMAIN selected : selected[k].id # scored[p].id) =>
                  \A k \in DOMAIN selected :
                      RatLE(scored[p].score, selected[k].score)
        /\ AscendingByPosition(selected)
        /\ \A k \in DOMAIN selected : \A m \in DOMAIN selected :
              k # m => Spacing(selected[k], selected[m]) >= 30
        /\ Ids(response.curvy_segments) = Ids(selected)

\* two removals, the first segment on the route among the kept ones
C28_Witness ==
    /\ response.kind = "result"
    /\ attempt = 2
    /\ InitialSize = 5
    /\ Len(selected) = 3
    /\ \A p \in DOMAIN scored :
          InitiallySelected(scored[p]) =>
              selected[1].route_position <= scored[p].route_position

\* C29: when the corridor query returns at least one candidate the initial
\* selection is not empty and the candidate-route call is issued; the
\* fallback for an empty selection is not taken.
C29_SelectionNeverEmpty ==
    (segments # << >> /\ pc \notin {"start", "await_baseline"}) =>
        /\ pc # "crashed"
        /\ Len(calls) >= 2
        /\ call_kinds[2] = "candidate"
        /\ selected # << >>
        /\ InitiallySelected(scored[1])
        /\ response.kind = "result" => response.waypoints_used >= 1

\* a corridor result of one segment under the lowest cap of 5 has led to
\* the candidate-route call
C29_Witness ==
    /\ pc = "await_candidate"
    /\ Len(segments) = 1
    /\ max_waypoints = 5
    /\ Len(calls[2]) = 3

\* C30: in a result with at least one curvy segment, geometry, distance
\* and duration are the engine's answer to the call made with exactly the
\* returned generated_waypoints, and curvy_segments lists the segments in
\* the order of the centroids of generated_waypoints.
C30_ResultFromOneIteration ==
    (response.kind = "result" /\ response.waypoints_used >= 1) =>
        /\ response.geometry = Len(calls)
        /\ calls[response.geometry] = response.generated_waypoints
        /\ response.distance = final_route.distance
        /\ response.duration = final_route.duration
        /\ final_route.geometry = response.geometry
        /\ Centroids(response.generated_waypoints)
             = [ k \in DOMAIN response.curvy_segments |->
                   Centroid(RowById(response.curvy_segments[k].id)) ]

\* a result produced by the second trim attempt
C30_Witness ==
    /\ response.kind = "result"
    /\ call_kinds[Len(calls)] = "trim"
    /\ NumberOfCalls("trim") = 2
    /\ response.waypoints_used = 3
    /\ response.geometry = 4

-----------------------------------------------------------------------------
(* Several requests at once: the router builds one OSRMService and one     *)
(* CurvyRouteService per request, and find_curvy_route keeps its state in  *)
(* locals of the coroutine. Every variable is a function of the request    *)
(* here, and a request's locals are the record Local(i).                   *)

Reqs == {1, 2}

ConcRequests == { r \in Requests : r.options.max_detour_ratio = <<5, 2>> }

ConcBaselineDistances == {0, 50000}

ConcRouteDistances == {55000, 150000}

ConcErrors == { e \in OSRMErrors : e.cause = "timeout" }

ConcCorridorResults ==
    { << >>,
      <<RowById(6)>>,
      <<RowById(2), RowById(1), RowById(4)>>,
      <<RowById(3), RowById(4), RowById(1), RowById(6), RowById(5)>> }

\* what the engine (and, after the baseline call, the corridor query) gave
RouteAnswer(r, segs) ==
    [kind |-> "route", route |-> r, segments |-> segs,
     error |-> [cause |-> "none", status_code |-> 200]]

ErrorAnswer(e) ==
    [kind |-> "error", route |-> NoRoute, segments |-> << >>, error |-> e]

\* the locals of find_curvy_route when it is called
LocalInit(req) ==
    [request |-> req, pc |-> "start", calls |-> << >>, call_kinds |-> << >>,
     answers |-> << >>, corridor_calls |-> << >>, baseline |-> NoRoute,
     corridor_width |-> 0, max_waypoints |-> 0, segments |-> << >>,
     scored |-> << >>, selected |-> << >>, remaining |-> << >>,
     attempt |-> 0, waypoint_list |-> << >>, final_route |-> NoRoute,
     response |-> NoResponse]

LocalAwait(st, list, kind, at) ==
    [st EXCEPT !.calls = Append(@, list),
               !.call_kinds = Append(@, kind),
               !.waypoint_list = list,
               !.pc = at]

LocalRaise(st, e) ==
    [st EXCEPT !.response = [kind |-> "error", cause |-> e.cause,
                             status_code |-> e.status_code,
                             raised_at |-> st.pc],
               !.pc = "failed"]

LocalCrash(st) ==
    [st EXCEPT !.response = [kind |-> "crash"], !.pc = "crashed"]

LocalRespond(st, r, curvy_segments, generated_waypoints) ==
    IF Raised(DetourRatio(r, st.baseline)) THEN LocalCrash(st)
    ELSE [st EXCEPT !.response =
                        _build_response(r, st.baseline, curvy_segments,
                                        generated_waypoints,
                                        st.corridor_width),
                    !.pc = "done"]

LocalCallBaseline(st) ==
    LocalAwait(st, <<st.request.start, st.request.end>>, "baseline",
               "await_baseline")

LocalBaselineReturns(st, base, segs) ==
    LET width == EffectiveCorridorWidth(st.request.options, base)
        cap   == EffectiveMaxWaypoints(st.request.options, base)
        sc    == _score_segments(segs, width)
        sel   == _select_segments(sc, cap)
        srt   == SortByRoutePosition(sel)
        st1   == [st EXCEPT
                    !.baseline = base,
                    !.corridor_width = width,
                    !.max_waypoints = cap,
                    !.corridor_calls =
                       Append(@, [buffer_meters |-> width,
                                  min_curvature |->
                                      st.request.options.min_curvature,
                                  min_length |->
                                      st.request.options.min_segment_length]),
                    !.segments = segs]
    IN  IF segs = << >> THEN LocalRespond(st1, base, << >>, << >>)
        ELSE IF ScoreRaised(sc) THEN LocalCrash(st1)
        ELSE IF sel = << >>
        THEN LocalRespond([st1 EXCEPT !.scored = sc], base, << >>, << >>)
        ELSE LocalAwait([st1 EXCEPT !.scored = sc, !.selected = srt],
                        _build_waypoint_list(st.request, srt), "candidate",
                        "await_candidate")

LocalTrimStep(st, rem, att) ==
    IF ContinueTrimming(rem, att)
    THEN LET trimmed == SortByRoutePosition(Tail(SortByScore(rem)))
         IN  LocalAwait([st EXCEPT !.remaining = trimmed,
                                   !.attempt = att + 1],
                        _build_waypoint_list(st.request, trimmed), "trim",
                        "await_trim")
    ELSE LET srt == SortByRoutePosition(rem)
         IN  LocalAwait([st EXCEPT !.remaining = srt, !.attempt = att],
                        _build_waypoint_list(st.request, srt), "last",
                        "await_last")

LocalCandidateReturns(st, r) ==
    LET detour_ratio == DetourRatio(r, st.baseline)
        st1 == [st EXCEPT !.final_route = r]
    IN  IF Raised(detour_ratio) THEN LocalCrash(st1)
        ELSE IF OverBudget(detour_ratio, st.request.options.max_detour_ratio)
        THEN LocalTrimStep(st1, st.selected, 0)
        ELSE LocalRespond(st1, r, _build_segment_infos(st.selected),
                          st.waypoint_list)

LocalTrimReturns(st, r) ==
    LET ratio == DetourRatio(r, st.baseline)
    IN  IF Raised(ratio) THEN LocalCrash(st)
        ELSE IF ~OverBudget(ratio, st.request.options.max_detour_ratio)
        THEN LocalRespond([st EXCEPT !.final_route = r,
                                     !.selected = st.remaining],
                          r, _build_segment_infos(st.remaining),
                          st.waypoint_list)
        ELSE LocalTrimStep(st, st.remaining, st.attempt)

LocalLastReturns(st, r) ==
    LET ratio == DetourRatio(r, st.baseline)
    IN  IF Raised(ratio) THEN LocalCrash(st)
        ELSE LocalRespond([st EXCEPT !.final_route = r,
                                     !.selected = st.remaining],
                          r, _build_segment_infos(st.remaining),
                          st.waypoint_list)

\* the coroutine resumes with the answer `in` to its outstanding call
LocalStep(st, in) ==
    LET heard == [st EXCEPT !.answers = Append(@, in)]
    IN  IF in.kind = "error" THEN LocalRaise(heard, in.error)
        ELSE IF st.pc = "await_baseline"
        THEN LocalBaselineReturns(heard, in.route, in.segments)
        ELSE IF st.pc = "await_candidate"
        THEN LocalCandidateReturns(heard, in.route)
        ELSE IF st.pc = "await_trim"
        THEN LocalTrimReturns(heard, in.route)
        ELSE LocalLastReturns(heard, in.route)

\* variant: the retry count is kept where every request reads it
Local_SharedRetryCount(i) ==
    [request |-> request[i], pc |-> pc[i], calls |-> calls[i],
     call_kinds |-> call_kinds[i], answers |-> answers[i],
     corridor_calls |-> corridor_calls[i], baseline |-> baseline[i],
     corridor_width |-> corridor_width[i],
     max_waypoints |-> max_waypoints[i], segments |-> segments[i],
     scored |-> scored[i], selected |-> selected[i],
     remaining |-> remaining[i],
     attempt |-> IF attempt[1] >= attempt[2] THEN attempt[1] ELSE attempt[2],
     waypoint_list |-> waypoint_list[i], final_route |-> final_route[i],
     response |-> response[i]]

\* variant: the working list of _trim_for_detour is the one of request 1
Local_SharedWorkingList(i) ==
    [request |-> request[i], pc |-> pc[i], calls |-> calls[i],
     call_kinds |-> call_kinds[i], answers |-> answers[i],
     corridor_calls |-> corridor_calls[i], baseline |-> baseline[i],
     corridor_width |-> corridor_width[i],
     max_waypoints |-> max_waypoints[i], segments |-> segments[i],
     scored |-> scored[i], selected |-> selected[i],
     remaining |-> remaining[1], attempt |-> attempt[i],
     waypoint_list |-> waypoint_list[i], final_route |-> final_route[i],
     response |-> response[i]]

\* the locals of request i
Local(i) ==
    [request |-> request[i], pc |-> pc[i], calls |-> calls[i],
     call_kinds |-> call_kinds[i], answers |-> answers[i],
     corridor_calls |-> corridor_calls[i], baseline |-> baseline[i],
     corridor_width |-> corridor_width[i],
     max_waypoints |-> max_waypoints[i], segments |-> segments[i],
     scored |-> scored[i], selected |-> selected[i],
     remaining |-> remaining[i], attempt |-> attempt[i],
     waypoint_list |-> waypoint_list[i], final_route |-> final_route[i],
     response |-> response[i]]

\* request i goes on with the locals `st`; no other request is touched
Update(i, st) ==
    /\ request' = [request EXCEPT ![i] = st.request]
    /\ pc' = [pc EXCEPT ![i] = st.pc]
    /\ calls' = [calls EXCEPT ![i] = st.calls]
    /\ call_kinds' = [call_kinds EXCEPT ![i] = st.call_kinds]
    /\ answers' = [answers EXCEPT ![i] = st.answers]
    /\ corridor_calls' = [corridor_calls EXCEPT ![i] = st.corridor_calls]
    /\ baseline' = [baseline EXCEPT ![i] = st.baseline]
    /\ corridor_width' = [corridor_width EXCEPT ![i] = st.corridor_width]
    /\ max_waypoints' = [max_waypoints EXCEPT ![i] = st.max_waypoints]
    /\ segments' = [segments EXCEPT ![i] = st.segments]
    /\ scored' = [scored EXCEPT ![i] = st.scored]
    /\ selected' = [selected EXCEPT ![i] = st.selected]
    /\ remaining' = [remaining EXCEPT ![i] = st.remaining]
    /\ attempt' = [attempt EXCEPT ![i] = st.attempt]
    /\ waypoint_list' = [waypoint_list EXCEPT ![i] = st.waypoint_list]
    /\ final_route' = [final_route EXCEPT ![i] = st.final_route]
    /\ response' = [response EXCEPT ![i] = st.response]

ConcInit ==
    /\ request \in [Reqs -> ConcRequests]
    /\ pc = [i \in Reqs |-> "start"]
    /\ calls = [i \in Reqs |-> << >>]
    /\ call_kinds = [i \in Reqs |-> << >>]
    /\ answers = [i \in Reqs |-> << >>]
    /\ corridor_calls = [i \in Reqs |-> << >>]
    /\ baseline = [i \in Reqs |-> NoRoute]
    /\ corridor_width = [i \in Reqs |-> 0]
    /\ max_waypoints = [i \in Reqs |-> 0]
    /\ segments = [i \in Reqs |-> << >>]
    /\ scored = [i \in Reqs |-> << >>]
    /\ selected = [i \in Reqs |-> << >>]
    /\ remaining = [i \in Reqs |-> << >>]
    /\ attempt = [i \in Reqs |-> 0]
    /\ waypoint_list = [i \in Reqs |-> << >>]
    /\ final_route = [i \in Reqs |-> NoRoute]
    /\ response = [i \in Reqs |-> NoResponse]

ConcCallBaseline ==
    \E i \in Reqs :
        /\ pc[i] = "start"
        /\ Update(i, LocalCallBaseline(Local(i)))

\* an engine call of some request raises OSRMError
ConcEngineRaises ==
    \E i \in Reqs :
        /\ pc[i] \in {"await_baseline", "await_candidate", "await_trim",
                      "await_last"}
        /\ \E e \in ConcErrors :
              Update(i, LocalStep(Local(i), ErrorAnswer(e)))

ConcBaselineReturns ==
    \E i \in Reqs :
        /\ pc[i] = "await_baseline"
        /\ \E base \in EngineRoutes(Len(calls[i]), ConcBaselineDistances),
              segs \in ConcCorridorResults :
              Update(i, LocalStep(Local(i), RouteAnswer(base, segs)))

ConcCandidateReturns ==
    \E i \in Reqs :
        /\ pc[i] = "await_candidate"
        /\ \E r \in EngineRoutes(Len(calls[i]), ConcRouteDistances) :
              Update(i, LocalStep(Local(i), RouteAnswer(r, << >>)))

ConcTrimReturns ==
    \E i \in Reqs :
        /\ pc[i] = "await_trim"
        /\ \E r \in EngineRoutes(Len(calls[i]), ConcRouteDistances) :
              Update(i, LocalStep(Local(i), RouteAnswer(r, << >>)))

ConcLastReturns ==
    \E i \in Reqs :
        /\ pc[i] = "await_last"
        /\ \E r \in EngineRoutes(Len(calls[i]), ConcRouteDistances) :
              Update(i, LocalStep(Local(i), RouteAnswer(r, << >>)))

ConcNext ==
    \/ ConcCallBaseline
    \/ ConcEngineRaises
    \/ ConcBaselineReturns
    \/ ConcCandidateReturns
    \/ ConcTrimReturns
    \/ ConcLastReturns

ConcSpec == ConcInit /\ [][ConcNext]_vars

-----------------------------------------------------------------------------
(* Properties of several requests *)

Over(i) == pc[i] \in {"done", "failed", "crashed"}

\* two answers are the same response: same error, or same distance and
\* duration and same corridor segments
SameAnswer(a, b) ==
    /\ a.kind = b.kind
    /\ a.error = b.error
    /\ a.segments = b.segments
    /\ a.route.distance = b.route.distance
    /\ a.route.duration = b.route.duration

\* the engine and the corridor source gave the same response to the same
\* request, within a call of find_curvy_route and across the two calls
DeterministicSources ==
    \A i \in Reqs : \A j \in Reqs :
        \A k \in DOMAIN answers[i] : \A m \in DOMAIN answers[j] :
            calls[i][k] = calls[j][m] =>
                SameAnswer(answers[i][k], answers[j][m])

RECURSIVE Replay(_, _, _)
Replay(st, ins, k) ==
    IF k > Len(ins) THEN st
    ELSE Replay(LocalStep(st, ins[k]), ins, k + 1)

\* the locals of a request that runs alone and is given the answers `ins`
RunAlone(req, started, ins) ==
    IF ~started THEN LocalInit(req)
    ELSE Replay(LocalCallBaseline(LocalInit(req)), ins, 1)

\* C25: however the awaits of concurrent requests interleave, the
\* selection, the working list, the retry count, the engine calls and the
\* result of each request are those of the same request running alone with
\* the same answers.
C25_RequestLocalState ==
    \A i \in Reqs :
        LET alone == RunAlone(request[i], pc[i] # "start", answers[i])
        IN  /\ pc[i] = alone.pc
            /\ selected[i] = alone.selected
            /\ remaining[i] = alone.remaining
            /\ attempt[i] = alone.attempt
            /\ calls[i] = alone.calls
            /\ response[i] = alone.response

\* both requests wait for a trim call, at different retry counts and with
\* different working lists
C25_Witness ==
    /\ pc[1] = "await_trim"
    /\ pc[2] = "await_trim"
    /\ attempt[1] = 3
    /\ attempt[2] = 1
    /\ Len(remaining[1]) = 2
    /\ Len(remaining[2]) = 1

====
